---- MODULE Spec2Model ----
(***************************************************************************)
(* Model of script.py: the Coral Island item scraper.                      *)
(*                                                                         *)
(* A Python str is a sequence of one-character strings, so that lower(),   *)
(* title(), text_norm(), "; ".join(), split("; ") and the substring test   *)
(* of find_by_labels are computed character by character.                  *)
(***************************************************************************)
EXTENDS Naturals, Sequences, FiniteSets

VARIABLES
  sj_pc,      \* set_join: "call" before the call, "ret" after it
  sj_values,  \* set_join: the argument `values`
  sj_out      \* set_join: the returned str

vars_join == << sj_pc, sj_values, sj_out >>

VARIABLES
  ad_fn,      \* the adapter running: "parse_list_page" or "parse_database_index"
  ad_browser, \* whether the adapter was given a browser (browser is not None)
  ad_pc,      \* the adapter's position
  ad_n,       \* how many anchors / tuples the adapter's loop has taken
  ad_seen,    \* the hrefs already taken (`seen`)
  ad_cur,     \* the loop's current (name, img_src, href)
  ad_items,   \* `items`: the rows built so far
  ad_ret,     \* the list the adapter returned
  ad_log,     \* history: per parse_detail_page call, the item's name and whether the fetch raised
  det_soup,   \* parse_detail_page: `soup`
  det_acc     \* parse_detail_page: `seasons` and `weather`

vars_adapter ==
  << ad_fn, ad_browser, ad_pc, ad_n, ad_seen, ad_cur, ad_items, ad_ret, ad_log,
     det_soup, det_acc >>

VARIABLES
  mg_driver,  \* merge: the driver whose de-duplication loop merges
  mg_a,       \* merge: the record a
  mg_b,       \* merge: the record b
  mg_memo,    \* merge: the merges this run of the interpreter has made, with their results
  mg_ab,      \* merge(a, b)
  mg_ba,      \* merge(b, a)
  mg_abb,     \* merge(merge(a, b), b)
  mg_done     \* which of "ab", "ba", "abb" are computed

vars_merge == << mg_driver, mg_a, mg_b, mg_memo, mg_ab, mg_ba, mg_abb, mg_done >>

VARIABLES
  p_driver,   \* the pipeline driver running: "scrape_all", "scrape_fandom" or "scrape_ptbr"
  p_pc,       \* the driver's position
  p_browser,  \* scrape_all: use_browser
  p_nurls,    \* len(urls); scrape_ptbr: len(categories)
  p_i,        \* how many urls / categories the source loop has done
  p_fn,       \* the adapter the driver is in
  p_n,        \* how many anchors / tables the running adapter has read
  p_seen,     \* the running adapter's `seen`
  p_items,    \* the running adapter's `items` / `rows`
  files,      \* scrape_ptbr: what the files under pt-BR/ hold
  all_rows,   \* `all_rows`
  by_name,    \* `by_name`, in insertion order
  p_k,        \* the position of the de-duplication loop in all_rows
  result,     \* the list the driver returned
  created,    \* history: every row an adapter built in this run
  p_visited,  \* history: the positions in urls of the sources whose adapter was called
  p_failed,   \* history: the positions in urls of the sources whose adapter raised
  p_indexed,  \* history: parse_database_index was called
  pw_state,   \* BrowserSession._pw: "none", "running" after start(), "stopped" after stop()
  b_state,    \* BrowserSession._browser: "none", "open" after launch(), "closed" after close()
  b_late      \* history: a page was asked of a browser that was not open

vars_pipe ==
  << p_driver, p_pc, p_browser, p_nurls, p_i, p_fn, p_n, p_seen, p_items, files,
     all_rows, by_name, p_k, result, created, p_visited, p_failed, p_indexed,
     pw_state, b_state, b_late >>

VARIABLES
  gs_pc,       \* get_soup: "loop" at the head of the for, "sleep" before time.sleep, "returned", "raised"
  gs_retries,  \* get_soup: the argument `retries`
  gs_backoff,  \* get_soup: the argument `backoff`, in half seconds
  gs_i,        \* get_soup: `i`
  gs_last_exc, \* get_soup: `last_exc`
  gs_out,      \* get_soup: the soup returned or the exception raised
  gs_tried,    \* history: what requests.get gave on each attempt
  gs_slept     \* history: the arguments of time.sleep, in half seconds

vars_soup ==
  << gs_pc, gs_retries, gs_backoff, gs_i, gs_last_exc, gs_out, gs_tried, gs_slept >>

vars == << vars_join, vars_adapter, vars_merge, vars_pipe, vars_soup >>

\* What an action of one part leaves alone.
vars_not_join == << vars_adapter, vars_merge, vars_pipe, vars_soup >>

vars_not_adapter == << vars_join, vars_merge, vars_pipe, vars_soup >>

vars_not_merge == << vars_join, vars_adapter, vars_pipe, vars_soup >>

vars_not_pipe == << vars_join, vars_adapter, vars_merge, vars_soup >>

vars_not_soup == << vars_join, vars_adapter, vars_merge, vars_pipe >>

(***************************************************************************)
(* Strings                                                                 *)
(***************************************************************************)
UpperLetters ==
  << "A","B","C","D","E","F","G","H","I","J","K","L","M",
     "N","O","P","Q","R","S","T","U","V","W","X","Y","Z" >>

LowerLetters ==
  << "a","b","c","d","e","f","g","h","i","j","k","l","m",
     "n","o","p","q","r","s","t","u","v","w","x","y","z" >>

\* The characters of the model in code-point order (what str comparison uses).
AsciiOrder == << " ", ";" >> \o UpperLetters \o LowerLetters

Chars == { AsciiOrder[i] : i \in 1..Len(AsciiOrder) }

Ord == [ c \in Chars |-> CHOOSE i \in 1..Len(AsciiOrder) : AsciiOrder[i] = c ]

IsUpper(c) == \E i \in 1..Len(UpperLetters) : UpperLetters[i] = c

IsLower(c) == \E i \in 1..Len(LowerLetters) : LowerLetters[i] = c

LowerChar ==
  [ c \in Chars |->
      IF IsUpper(c)
      THEN LowerLetters[CHOOSE i \in 1..Len(UpperLetters) : UpperLetters[i] = c]
      ELSE c ]

UpperChar ==
  [ c \in Chars |->
      IF IsLower(c)
      THEN UpperLetters[CHOOSE i \in 1..Len(LowerLetters) : LowerLetters[i] = c]
      ELSE c ]

\* str.lower()
lower(s) == [ i \in 1..Len(s) |-> LowerChar[s[i]] ]

\* str.title(): a letter that follows a non-letter is upper-cased, every other
\* letter is lower-cased.
title(s) ==
  [ i \in 1..Len(s) |->
      IF i = 1 \/ ~(IsUpper(s[i-1]) \/ IsLower(s[i-1]))
      THEN UpperChar[s[i]]
      ELSE LowerChar[s[i]] ]

\* a < b on str: lexicographic on code points.
RECURSIVE StrLess(_, _)
StrLess(a, b) ==
  IF b = << >> THEN FALSE
  ELSE IF a = << >> THEN TRUE
  ELSE IF a[1] # b[1] THEN Ord[a[1]] < Ord[b[1]]
  ELSE StrLess(Tail(a), Tail(b))

\* sorted(list of distinct str)
RECURSIVE sorted(_)
sorted(S) ==
  IF S = {} THEN << >>
  ELSE LET m == CHOOSE x \in S : \A y \in S \ {x} : StrLess(x, y)
       IN  << m >> \o sorted(S \ {m})

\* sep.join(parts)
RECURSIVE Join(_, _)
Join(parts, sep) ==
  IF parts = << >> THEN << >>
  ELSE IF Len(parts) = 1 THEN parts[1]
  ELSE parts[1] \o sep \o Join(Tail(parts), sep)

StartsWith(s, w) == Len(w) <= Len(s) /\ SubSeq(s, 1, Len(w)) = w

\* w in s
Contains(s, w) ==
  \E i \in 1..(Len(s) + 1) :
     i + Len(w) - 1 <= Len(s) /\ SubSeq(s, i, i + Len(w) - 1) = w

\* s.split(sep): the list of the pieces between the left-most, non-overlapping
\* occurrences of sep ("".split(sep) is [""]).
RECURSIVE SplitFrom(_, _, _)
SplitFrom(s, sep, piece) ==
  IF s = << >> THEN << piece >>
  ELSE IF StartsWith(s, sep)
       THEN << piece >> \o SplitFrom(SubSeq(s, Len(sep) + 1, Len(s)), sep, << >>)
       ELSE SplitFrom(Tail(s), sep, Append(piece, s[1]))

split(s, sep) == SplitFrom(s, sep, << >>)

Range(f) == { f[i] : i \in DOMAIN f }


\* re.sub(r"\s+", " ", s).strip(); the model's only white-space character is " ".
RECURSIVE CollapseSpaces(_)
CollapseSpaces(s) ==
  IF Len(s) < 2 THEN s
  ELSE IF s[1] = " " /\ s[2] = " " THEN CollapseSpaces(Tail(s))
  ELSE << s[1] >> \o CollapseSpaces(Tail(s))

strip(s) ==
  LET a == IF s # << >> /\ s[1] = " " THEN Tail(s) ELSE s
  IN  IF a # << >> /\ a[Len(a)] = " " THEN SubSeq(a, 1, Len(a) - 1) ELSE a

text_norm(s) == strip(CollapseSpaces(s))

(***************************************************************************)
(* Vocabulary                                                              *)
(***************************************************************************)
Sep == << ";", " " >>

Spring == << "S","p","r","i","n","g" >>
Summer == << "S","u","m","m","e","r" >>
Fall == << "F","a","l","l" >>
Winter == << "W","i","n","t","e","r" >>
AllSeasons == << "A","l","l"," ","S","e","a","s","o","n","s" >>
YearRound == << "Y","e","a","r"," ","R","o","u","n","d" >>
Sunny == << "S","u","n","n","y" >>
Rainy == << "R","a","i","n","y" >>
Stormy == << "S","t","o","r","m","y" >>
Snowy == << "S","n","o","w","y" >>

canon == << Spring, Summer, Fall, Winter, AllSeasons, YearRound >>

canon_lower == { lower(canon[i]) : i \in 1..Len(canon) }

(***************************************************************************)
(* set_join                                                                *)
(*                                                                         *)
(* present = {v.lower(): v for v in values} keeps, for every lower-cased   *)
(* key, the value the iteration of the set reaches last.  The iteration    *)
(* order of a set of str is fixed by the interpreter's hash seed and by    *)
(* the set's history, not by the program, so every spelling of a key can   *)
(* be the one kept: a possible `present` is any map from the keys to a     *)
(* value with that key.                                                    *)
(***************************************************************************)
PresentChoices(values) ==
  LET keys == { lower(v) : v \in values }
  IN  { p \in [keys -> values] : \A k \in keys : lower(p[k]) = k }

RECURSIVE OrderedFrom(_, _)
OrderedFrom(present, i) ==
  IF i > Len(canon) THEN << >>
  ELSE (IF lower(canon[i]) \in DOMAIN present /\ present[lower(canon[i])] # << >>
        THEN << present[lower(canon[i])] >>
        ELSE << >>) \o OrderedFrom(present, i + 1)

set_join_present_RestFirst(values, present) ==
  IF values = {} THEN << >>
  ELSE LET ordered == OrderedFrom(present, 1)
           rest == sorted({ present[k] : k \in (DOMAIN present) \ canon_lower })
       IN  Join(rest \o ordered, Sep)

set_join_present(values, present) ==
  IF values = {} THEN << >>
  ELSE LET ordered == OrderedFrom(present, 1)
           rest == sorted({ present[k] : k \in (DOMAIN present) \ canon_lower })
       IN  Join(ordered \o rest, Sep)

\* The strings set_join(values) can return.
set_join(values) ==
  { set_join_present(values, p) : p \in PresentChoices(values) }

\* set(cell.split("; ")) if cell else set()
cell_set(cell) == IF cell = << >> THEN {} ELSE Range(split(cell, Sep))

(***************************************************************************)
(* find_by_labels                                                          *)
(***************************************************************************)
spring == << "s","p","r","i","n","g" >>
summer == << "s","u","m","m","e","r" >>
fall == << "f","a","l","l" >>
autumn == << "a","u","t","u","m","n" >>
winter == << "w","i","n","t","e","r" >>
all_seasons == << "a","l","l"," ","s","e","a","s","o","n","s" >>
year_round == << "y","e","a","r"," ","r","o","u","n","d" >>
sunny == << "s","u","n","n","y" >>
rainy == << "r","a","i","n","y" >>
stormy == << "s","t","o","r","m","y" >>
windy == << "w","i","n","d","y" >>
snowy == << "s","n","o","w","y" >>
cloudy == << "c","l","o","u","d","y" >>

SEASON_WORDS == << spring, summer, fall, autumn, winter, all_seasons, year_round >>

WEATHER_WORDS == << sunny, rainy, stormy, windy, snowy, cloudy >>

\* The label find_by_labels adds for the dictionary word w.
FoundLabel(w) ==
  IF w = autumn THEN Fall
  ELSE IF w = all_seasons THEN AllSeasons
  ELSE IF w = year_round THEN YearRound
  ELSE title(w)

find_by_labels(text, dictionary) ==
  LET low == lower(text)
  IN  { FoundLabel(dictionary[i]) :
          i \in { j \in 1..Len(dictionary) : Contains(low, dictionary[j]) } }

(***************************************************************************)
(* parse_detail_page                                                       *)
(*                                                                         *)
(* What a fetch of a detail page gives: ok = FALSE when browser.soup or    *)
(* get_soup raises, else the texts the three strategies read: the text of  *)
(* every "table, .infobox, .item-info, .details" element, the text of      *)
(* every ".icons, .icon-list, .tags, .badges, .chips" element, and the     *)
(* text of main / article / the document.                                  *)
(***************************************************************************)
NoisePhrases ==
  { << "C","o","r","a","l"," ","G","u","i","d","e" >>,
    << "J","o","u","r","n","a","l" >>,
    << "C","r","a","f","t","i","n","g" >>,
    << "N","P","C","s" >>,
    << "L","o","c","a","t","i","o","n","s" >>,
    << "I","t","e","m"," ","d","a","t","a","b","a","s","e" >> }

IsWordChar(c) == IsUpper(c) \/ IsLower(c)

\* re.sub(r"\b(Coral Guide|...|Item database)\b", " ", text, flags=re.I);
\* prevWord: the character before s is a word character.
RECURSIVE SubNoise(_, _)
SubNoise(s, prevWord) ==
  IF s = << >> THEN << >>
  ELSE LET hits == { p \in NoisePhrases :
                       /\ ~prevWord
                       /\ StartsWith(lower(s), lower(p))
                       /\ (Len(s) = Len(p) \/ ~IsWordChar(s[Len(p) + 1])) }
       IN  IF hits # {}
           THEN LET p == CHOOSE q \in hits : TRUE
                IN  << " " >> \o SubNoise(SubSeq(s, Len(p) + 1, Len(s)), TRUE)
           ELSE << s[1] >> \o SubNoise(Tail(s), IsWordChar(s[1]))

EmptyAttrs == [seasons |-> {}, weather |-> {}]

FetchError == [ok |-> FALSE, tables |-> << >>, groups |-> << >>, main |-> << >>]

RECURSIVE ScanTexts(_, _)
ScanTexts(texts, acc) ==
  IF texts = << >> THEN acc
  ELSE ScanTexts(Tail(texts),
         [seasons |-> acc.seasons \cup find_by_labels(Head(texts), SEASON_WORDS),
          weather |-> acc.weather \cup find_by_labels(Head(texts), WEATHER_WORDS)])

Strategy1(soup, acc) == ScanTexts(soup.tables, acc)

Strategy2(soup, acc) == ScanTexts(soup.groups, acc)

\* if not seasons or not weather
NeedsStrategy3(acc) == acc.seasons = {} \/ acc.weather = {}

Strategy3(soup, acc) ==
  LET text == SubNoise(soup.main, FALSE)
  IN  [seasons |-> acc.seasons \cup find_by_labels(text, SEASON_WORDS),
       weather |-> acc.weather \cup find_by_labels(text, WEATHER_WORDS)]

DetailPcOnFetchError_Reraise == "raised"

\* Where parse_detail_page goes when the fetch raises: the except clause returns.
DetailPcOnFetchError == "det_return"

\* parse_detail_page as a function of what the fetch gives.
parse_detail_page(fetch) ==
  IF ~fetch.ok THEN EmptyAttrs
  ELSE LET acc == Strategy2(fetch, Strategy1(fetch, EmptyAttrs))
       IN  IF NeedsStrategy3(acc) THEN Strategy3(fetch, acc) ELSE acc

(***************************************************************************)
(* ItemRow and the adapters of the live site                               *)
(*                                                                         *)
(* URLs, file paths and image references are only copied, compared and     *)
(* tested for emptiness, so they are plain strings ("" is the empty one).  *)
(***************************************************************************)
ItemRow(image, name, seasons, weather, source_page, category) ==
  [image |-> image, name |-> name, seasons |-> seasons, weather |-> weather,
   source_page |-> source_page, category |-> category]

\* The rows ItemRow(image, name, set_join(seasons), set_join(weather), source_page)
\* can be.
BuildRows(image, name, attrs, source_page, category) ==
  { ItemRow(image, name, s, w, source_page, category) :
      s \in set_join(attrs.seasons), w \in set_join(attrs.weather) }

\* a or b, on str
PyOr(a, b) == IF a # << >> THEN a ELSE b

ImgOr_LaterFirst(a, b) == IF b # "" THEN b ELSE a

\* prev.image or r.image
ImgOr(a, b) == IF a # "" THEN a ELSE b

BoolInt(b) == IF b THEN 1 ELSE 0

\* (len(seasons) > 0) + (len(weather) > 0) + (len(image) > 0)
Score(r) == BoolInt(r.seasons # << >>) + BoolInt(r.weather # << >>) + BoolInt(r.image # "")

\* The dict key of a row: name.lower(), and in parse_list_page
\* (name.lower(), source_page).
RowKey_AnyName(r, withPage) ==
  IF withPage THEN << << >>, r.source_page >> ELSE << << >> >>

RowKey(r, withPage) ==
  IF withPage THEN << lower(r.name), r.source_page >> ELSE << lower(r.name) >>

\* The position of the row of `rows` with the key of r, 0 when there is none.
KeyIndex(rows, r, withPage) ==
  IF \E i \in 1..Len(rows) : RowKey(rows[i], withPage) = RowKey(r, withPage)
  THEN CHOOSE i \in 1..Len(rows) : RowKey(rows[i], withPage) = RowKey(r, withPage)
  ELSE 0

KeepBest_LastOfEqual(best, r, withPage) ==
  LET i == KeyIndex(best, r, withPage)
  IN  IF i = 0 THEN Append(best, r)
      ELSE IF Score(r) >= Score(best[i]) THEN [best EXCEPT ![i] = r]
      ELSE best

\* One turn of "if key not in best: best[key] = r / elif new_score > prev_score:
\* best[key] = r"; a dict keeps the position of the key it replaces the value of.
KeepBest(best, r, withPage) ==
  LET i == KeyIndex(best, r, withPage)
  IN  IF i = 0 THEN Append(best, r)
      ELSE IF Score(r) > Score(best[i]) THEN [best EXCEPT ![i] = r]
      ELSE best

RECURSIVE DedupByScore(_, _, _)
DedupByScore(rows, best, withPage) ==
  IF rows = << >> THEN best
  ELSE DedupByScore(Tail(rows), KeepBest(best, Head(rows), withPage), withPage)

\* One turn of "if k not in by_name: by_name[k] = r".
KeepFirst(by, r) ==
  IF KeyIndex(by, r, FALSE) = 0 THEN Append(by, r) ELSE by

RECURSIVE DedupFirst(_, _)
DedupFirst(rows, by) ==
  IF rows = << >> THEN by
  ELSE DedupFirst(Tail(rows), KeepFirst(by, Head(rows)))

\* prev.category or r.category
CatOr(a, b) == IF a # "" THEN a ELSE b

MergeRows_KeepPrev(driver, prev, r) ==
  { ItemRow(ImgOr(prev.image, r.image), prev.name, prev.seasons, prev.weather,
            prev.source_page,
            IF driver = "scrape_ptbr" THEN CatOr(prev.category, r.category) ELSE "") }

MergeRows_LaterName(driver, prev, r) ==
  { ItemRow(ImgOr(prev.image, r.image), r.name, s, w, r.source_page,
            IF driver = "scrape_ptbr" THEN CatOr(prev.category, r.category) ELSE "") :
      s \in set_join(cell_set(prev.seasons) \cup cell_set(r.seasons)),
      w \in set_join(cell_set(prev.weather) \cup cell_set(r.weather)) }

\* The records the else branch of a driver's de-duplication loop can build from
\* prev = by_name[key] and r; only scrape_ptbr passes category, the other two
\* leave it to the dataclass default.
MergeRows(driver, prev, r) ==
  { ItemRow(ImgOr(prev.image, r.image), prev.name, s, w, prev.source_page,
            IF driver = "scrape_ptbr" THEN CatOr(prev.category, r.category) ELSE "") :
      s \in set_join(cell_set(prev.seasons) \cup cell_set(r.seasons)),
      w \in set_join(cell_set(prev.weather) \cup cell_set(r.weather)) }

\* One turn of a driver's de-duplication loop: the values by_name can take.
DedupTurnOutcomes(driver, by, r) ==
  LET i == KeyIndex(by, r, FALSE)
  IN  IF i = 0 THEN { Append(by, r) }
      ELSE { [by EXCEPT ![i] = m] : m \in MergeRows(driver, by[i], r) }

ListUrl == "https://coral.guide/journal/produce/crops"

DatabaseUrl == "https://coral.guide/database"

\* text_norm(a.get_text()) or text_norm(a.get("title", ""))
AnchorName(a) == PyOr(text_norm(a.text), text_norm(a.title))

\* parse_database_index: the anchor's name, else the text of the first
\* ".name, h3, h4, h2, span" of the parent that has one.
IndexName(a) == PyOr(AnchorName(a), text_norm(a.parent))

\* What the adapter's loop does with the anchor a: "skip" (continue) or "take".
LoopTakes(fn, browser, seen, a) ==
  IF fn = "parse_list_page" /\ browser
  THEN text_norm(a.text) # << >> /\ a.href \notin seen
  ELSE IF fn = "parse_list_page"
  THEN AnchorName(a) # << >>
  ELSE a.href \notin seen /\ IndexName(a) # << >>

LoopName(fn, browser, a) ==
  IF fn = "parse_list_page" /\ browser THEN text_norm(a.text)
  ELSE IF fn = "parse_list_page" THEN AnchorName(a)
  ELSE IndexName(a)

\* Whether the adapter fetches the detail page again for a header image.
LooksForHeaderImage(fn, browser, img) ==
  img = "" /\ (fn = "parse_database_index" \/ browser)

AdapterUrl(fn) == IF fn = "parse_list_page" THEN ListUrl ELSE DatabaseUrl

\* What the adapter returns from `items`.
AdapterResult(fn, browser, items) ==
  IF fn = "parse_list_page" /\ browser THEN items
  ELSE IF fn = "parse_list_page" THEN DedupByScore(items, << >>, TRUE)
  ELSE DedupFirst(items, << >>)

NoAnchor == [name |-> << >>, img |-> "", href |-> ""]

(***************************************************************************)
(* parse_fandom_table                                                      *)
(*                                                                         *)
(* A table is the sequence of its tr; of a tr the adapter reads whether it *)
(* has td cells, its first img tag, the title and the text of its first    *)
(* anchor, the text of its first td, its whole text, and the alt / title / *)
(* aria-label text of its img, [title] and [aria-label] elements.          *)
(***************************************************************************)
NoImg == [present |-> FALSE, srcset |-> "", lazy |-> "", src |-> ""]

DataUris == { "data:image/gif;base64,R0lGOD" }

\* _image_url_from_tag: the first URL of srcset, else data-src and its kin, else
\* src, skipping data: URIs; at the end src whatever it is.
image_url_from_tag(img) ==
  IF ~img.present THEN ""
  ELSE IF img.srcset # "" /\ img.srcset \notin DataUris THEN img.srcset
  ELSE IF img.lazy # "" /\ img.lazy \notin DataUris THEN img.lazy
  ELSE IF img.src # "" /\ img.src \notin DataUris THEN img.src
  ELSE img.src

HeaderNames ==
  { << "i","m","a","g","e" >>, << "i","c","o","n" >>, << "n","a","m","e" >> }

\* name = text_norm(a.get("title") or a.get_text()); if not name: the first td
FandomName(tr) ==
  PyOr(text_norm(PyOr(tr.a_title, tr.a_text)), text_norm(tr.td0))

\* Whether the loop over trs[1:] builds a row for tr.
FandomTakes(tr) ==
  /\ tr.tds
  /\ FandomName(tr) # << >>
  /\ lower(FandomName(tr)) \notin HeaderNames

RECURSIVE ScanMetas(_, _)
ScanMetas(metas, acc) ==
  IF metas = << >> THEN acc
  ELSE ScanMetas(Tail(metas),
         IF text_norm(Head(metas)) = << >> THEN acc
         ELSE [seasons |-> acc.seasons \cup find_by_labels(text_norm(Head(metas)), SEASON_WORDS),
               weather |-> acc.weather \cup find_by_labels(text_norm(Head(metas)), WEATHER_WORDS)])

FandomAttrs(tr) ==
  ScanMetas(tr.metas,
    [seasons |-> find_by_labels(text_norm(tr.text), SEASON_WORDS),
     weather |-> find_by_labels(text_norm(tr.text), WEATHER_WORDS)])

(***************************************************************************)
(* scrape_ptbr: the files under pt-BR/ and the maps built from them        *)
(***************************************************************************)
\* _icon_to_url on the icon names of the model
icon_to_url(icon) ==
  IF icon = "" THEN ""
  ELSE IF icon = "kale" THEN "https://coral.guide/assets/live/items/icons/kale.webp?v=v1.2-1238"
  ELSE "https://coral.guide/assets/live/items/icons/beet.webp?v=v1.2-1238"

\* A dict built from a list keeps, for a key, the last entry with it.
LastIndex(entries, id) ==
  IF \E i \in 1..Len(entries) : entries[i].id = id
  THEN CHOOSE i \in 1..Len(entries) :
         /\ entries[i].id = id
         /\ \A j \in (i + 1)..Len(entries) : entries[j].id # id
  ELSE 0

SeasonFlagKeys == { spring, summer, fall, autumn, winter }

season_flags_to_set(flags) ==
  { (IF lower(k) = autumn THEN Fall ELSE title(lower(k))) :
      k \in { f \in DOMAIN flags : flags[f] /\ lower(f) \in SeasonFlagKeys } }

rain == << "r","a","i","n" >>
storm == << "s","t","o","r","m" >>
snow == << "s","n","o","w" >>
blizzard == << "b","l","i","z","z","a","r","d" >>

WeatherFlagKeys == { sunny, rain, storm, windy, snow, blizzard, cloudy }

WeatherOfFlag(k) ==
  IF k = rain THEN Rainy
  ELSE IF k = storm THEN Stormy
  ELSE IF k = snow \/ k = blizzard THEN Snowy
  ELSE title(k)

weather_flags_to_set(flags) ==
  { WeatherOfFlag(lower(k)) :
      k \in { f \in DOMAIN flags : flags[f] /\ lower(f) \in WeatherFlagKeys } }

\* item_info(item_id)
item_info(fs, key) ==
  LET i == LastIndex(fs.items, key)
  IN  IF i = 0 THEN [name |-> << >>, image |-> ""]
      ELSE [name |-> fs.items[i].displayName, image |-> icon_to_url(fs.items[i].iconName)]

\* pick = (c or {}).get("pickupableItem") or {}
NoItem == [id |-> << >>]

\* crop_product_to_seasons is keyed by pick.get("id"), for the entries that have
\* one; the last entry with a key is the one the dict keeps.
CropIndex(crops, key) ==
  IF key # << >> /\ \E i \in 1..Len(crops) : crops[i].pickupableItem.id = key
  THEN CHOOSE i \in 1..Len(crops) :
         /\ crops[i].pickupableItem.id = key
         /\ \A j \in (i + 1)..Len(crops) : crops[j].pickupableItem.id # key
  ELSE 0

\* crop_product_to_seasons.get(key, set())
crop_product_to_seasons(fs, key) ==
  LET i == CropIndex(fs.crops, key)
  IN  IF i = 0 THEN {}
      ELSE { title(fs.crops[i].growableSeason[j]) :
               j \in 1..Len(fs.crops[i].growableSeason) }

\* map_spawn_list(file).get(key, (set(), set()))
map_spawn_list(entries, key) ==
  LET i == LastIndex(entries, key)
  IN  IF i = 0 THEN EmptyAttrs
      ELSE LET ss == entries[i].spawnSettings
           IN  [seasons |-> UNION { season_flags_to_set(ss[j].spawnSeason) : j \in 1..Len(ss) },
                weather |-> UNION { weather_flags_to_set(ss[j].spawnWeather) : j \in 1..Len(ss) }]

\* map_spawn_top(file).get(key, (set(), set()))
map_spawn_top(entries, key) ==
  LET i == LastIndex(entries, key)
  IN  IF i = 0 THEN EmptyAttrs
      ELSE [seasons |-> season_flags_to_set(entries[i].spawnSeason),
            weather |-> weather_flags_to_set(entries[i].spawnWeather)]

categories ==
  << [path |-> "pt-BR/journal-crops.json", category |-> "crops"],
     [path |-> "pt-BR/journal-animal-products.json", category |-> "animalproducts"],
     [path |-> "pt-BR/journal-artisan-products.json", category |-> "artisan"],
     [path |-> "pt-BR/journal-ocean-products.json", category |-> "ocean"],
     [path |-> "pt-BR/journal-fish.json", category |-> "fish"],
     [path |-> "pt-BR/journal-insects.json", category |-> "insects"],
     [path |-> "pt-BR/journal-sea-critters.json", category |-> "seacritters"],
     [path |-> "pt-BR/journal-artifacts.json", category |-> "artifacts"],
     [path |-> "pt-BR/journal-gems.json", category |-> "gems"],
     [path |-> "pt-BR/journal-fossils.json", category |-> "fossils"],
     [path |-> "pt-BR/journal-scavangable.json", category |-> "scavangables"] >>

label_map(category) ==
  IF category = "animalproducts" THEN "animal products"
  ELSE IF category = "artisan" THEN "artisan products"
  ELSE IF category = "fish" THEN "peixes"
  ELSE IF category = "insects" THEN "insetos"
  ELSE IF category = "seacritters" THEN "animais marinhos"
  ELSE IF category = "artifacts" THEN "artefatos"
  ELSE IF category = "gems" THEN "gemas"
  ELSE IF category = "fossils" THEN "fossil"
  ELSE IF category = "scavangables" THEN "coletaveis"
  ELSE category

\* parse_journal: the seasons and weather of an entry, by category
JournalAttrs(fs, category, key) ==
  IF category = "crops"
  THEN [seasons |-> IF \A out \in set_join(crop_product_to_seasons(fs, key)) : out = << >>
                    THEN {} ELSE crop_product_to_seasons(fs, key),
        weather |-> {}]
  ELSE IF category = "fish" THEN map_spawn_list(fs.fish, key)
  ELSE IF category = "insects" THEN map_spawn_top(fs.insects, key)
  ELSE IF category = "seacritters" THEN map_spawn_top(fs.seacritters, key)
  ELSE IF category = "ocean"
  THEN [seasons |-> crop_product_to_seasons(fs, key), weather |-> {}]
  ELSE EmptyAttrs

order ==
  << "crops", "animal products", "artisan products", "ocean", "peixes", "insetos",
     "animais marinhos", "artefatos", "gemas", "fossil", "coletaveis" >>

\* order_index.get(category, 999)
order_index(category) ==
  IF \E i \in 1..Len(order) : order[i] = category
  THEN (CHOOSE i \in 1..Len(order) : order[i] = category) - 1
  ELSE 999

\* The sort key (order_index.get(r.category, 999), r.name.lower()), compared as
\* tuples.
SortKeyLess(a, b) ==
  \/ order_index(a.category) < order_index(b.category)
  \/ /\ order_index(a.category) = order_index(b.category)
     /\ StrLess(lower(a.name), lower(b.name))

\* list.sort is stable: r goes after the rows whose key is not greater.
RECURSIVE InsertSorted(_, _)
InsertSorted(rows, r) ==
  IF rows = << >> THEN << r >>
  ELSE IF SortKeyLess(r, Head(rows)) THEN << r >> \o rows
  ELSE << Head(rows) >> \o InsertSorted(Tail(rows), r)

RECURSIVE SortRows(_, _)
SortRows(rows, acc) ==
  IF rows = << >> THEN acc ELSE SortRows(Tail(rows), InsertSorted(acc, Head(rows)))

(***************************************************************************)
(* scrape_all: the JSON capture fallback                                   *)
(*                                                                         *)
(* Of a candidate node the loop reads name, icon, image, seasons, season   *)
(* and weather; a str value is [str |-> TRUE, val |-> the str], a list is  *)
(* [str |-> FALSE, val |-> the list], a missing key is the default.        *)
(***************************************************************************)
NoList == [str |-> FALSE, val |-> << >>]

JsonList(v) == [str |-> FALSE, val |-> v]

JsonStr(v) == [str |-> TRUE, val |-> v]

\* a or b, on JSON values
JsonOr(a, b) == IF a.val # << >> THEN a ELSE b

\* {seasons} if isinstance(seasons, str) else {str(s) for s in seasons}
JsonLabelSet(v) == IF v.str THEN { v.val } ELSE Range(v.val)

JsonAttrs(node) ==
  [seasons |-> JsonLabelSet(JsonOr(node.seasons, JsonOr(node.season, NoList))),
   weather |-> JsonLabelSet(JsonOr(node.weather, NoList))]

(***************************************************************************)
(* The parts a specification does not run stay as they are here.           *)
(***************************************************************************)
NoRow == ItemRow("", << >>, << >>, << >>, "", "")

\* last_exc = None
NoExc == [kind |-> "None"]

NoFiles ==
  [items |-> << >>, crops |-> << >>, fish |-> << >>, insects |-> << >>,
   seacritters |-> << >>]

JoinIdle == sj_pc = "idle" /\ sj_values = {} /\ sj_out = << >>

AdapterIdle ==
  /\ ad_fn = "none" /\ ad_browser = FALSE /\ ad_pc = "idle" /\ ad_n = 0
  /\ ad_seen = {} /\ ad_cur = NoAnchor /\ ad_items = << >> /\ ad_ret = << >>
  /\ ad_log = << >> /\ det_soup = FetchError /\ det_acc = EmptyAttrs

MergeIdle ==
  /\ mg_driver = "none" /\ mg_a = NoRow /\ mg_b = NoRow /\ mg_memo = {}
  /\ mg_ab = NoRow /\ mg_ba = NoRow /\ mg_abb = NoRow /\ mg_done = {}

PipeIdle ==
  /\ p_driver = "none" /\ p_pc = "idle" /\ p_browser = FALSE /\ p_nurls = 0
  /\ p_i = 0 /\ p_fn = "none" /\ p_n = 0 /\ p_seen = {} /\ p_items = << >>
  /\ files = NoFiles /\ all_rows = << >> /\ by_name = << >> /\ p_k = 0
  /\ result = << >> /\ created = {}
  /\ p_visited = << >> /\ p_failed = {} /\ p_indexed = FALSE
  /\ pw_state = "none" /\ b_state = "none" /\ b_late = FALSE

SoupIdle ==
  /\ gs_pc = "idle" /\ gs_retries = 0 /\ gs_backoff = 0 /\ gs_i = 0
  /\ gs_last_exc = NoExc /\ gs_out = NoExc /\ gs_tried = << >> /\ gs_slept = << >>

(***************************************************************************)
(* SpecJoin: one call of set_join on a bounded label set.                  *)
(***************************************************************************)
MaxSetSize == 3

Foo == << "F","o","o" >>
foo == << "f","o","o" >>
JoinLabels ==
  { Spring, Fall, Winter, YearRound, Rainy, Sunny, Foo, foo, spring, << >> }

JoinInit ==
  /\ sj_pc = "call"
  /\ sj_values \in { S \in SUBSET JoinLabels : Cardinality(S) <= MaxSetSize }
  /\ sj_out = << >>
  /\ AdapterIdle /\ MergeIdle /\ PipeIdle /\ SoupIdle

SetJoinCall ==
  /\ sj_pc = "call"
  /\ \E out \in set_join(sj_values) : sj_out' = out
  /\ sj_pc' = "ret"
  /\ UNCHANGED << sj_values, vars_not_join >>

SpecJoin == JoinInit /\ [][SetJoinCall]_vars

(***************************************************************************)
(* SpecDetail: one call of parse_list_page or parse_database_index on a    *)
(* page of at most MaxAnchors anchors, parse_detail_page step by step.     *)
(***************************************************************************)
MaxAnchors == 2

Kale == << "K","a","l","e" >>
kale_sp == << "k","a","l","e"," " >>
Beet == << "B","e","e","t" >>

\* The anchors of a page: the anchor's text, its title attribute, the text of the
\* name tag of its parent, the src of its image, its href.
AnchorChoices ==
  [text : { Kale, kale_sp, << >> }, title : { << >>, Beet }, parent : { << >>, Kale },
   img : { "", "icon.png" }, href : { "/database/a", "/database/b" }]

JournalSunnyFall ==
  << "J","o","u","r","n","a","l"," ","S","u","n","n","y"," ","f","a","l","l" >>

Soup(tables, groups, main) ==
  [ok |-> TRUE, tables |-> tables, groups |-> groups, main |-> main]

\* What the fetch of a detail page can give: an exception, or a page with
\* nothing to find, with season and weather in its table and badges, with only
\* the weather in its badges, with only the season in its table.
DetailFetches ==
  { FetchError,
    Soup(<< >>, << >>, << >>),
    Soup(<< spring >>, << Rainy >>, JournalSunnyFall),
    Soup(<< >>, << Rainy >>, JournalSunnyFall),
    Soup(<< spring >>, << >>, JournalSunnyFall) }

AdapterInit ==
  /\ ad_fn \in { "parse_list_page", "parse_database_index" }
  /\ ad_browser \in BOOLEAN
  /\ ad_pc = "start"
  /\ ad_n = 0 /\ ad_seen = {} /\ ad_cur = NoAnchor /\ ad_items = << >>
  /\ ad_ret = << >> /\ ad_log = << >>
  /\ det_soup = FetchError /\ det_acc = EmptyAttrs
  /\ JoinIdle /\ MergeIdle /\ PipeIdle /\ SoupIdle

\* The fetch of the page itself: browser.extract_items_from_journal, browser.soup
\* or get_soup returns, or raises out of the adapter.
AdFetchPage ==
  /\ ad_pc = "start"
  /\ ad_pc' \in { "loop", "raised" }
  /\ UNCHANGED << ad_fn, ad_browser, ad_n, ad_seen, ad_cur, ad_items, ad_ret, ad_log,
                  det_soup, det_acc, vars_not_adapter >>

\* The loop takes the next anchor and calls parse_detail_page for it.
AdTakeAnchor ==
  /\ ad_pc = "loop" /\ ad_n < MaxAnchors
  /\ \E a \in AnchorChoices :
       /\ LoopTakes(ad_fn, ad_browser, ad_seen, a)
       /\ ad_cur' = [name |-> LoopName(ad_fn, ad_browser, a), img |-> a.img, href |-> a.href]
       /\ ad_seen' = IF ad_fn = "parse_list_page" /\ ~ad_browser
                     THEN ad_seen ELSE ad_seen \cup { a.href }
  /\ ad_n' = ad_n + 1
  /\ ad_pc' = "detail"
  /\ UNCHANGED << ad_fn, ad_browser, ad_items, ad_ret, ad_log, det_soup, det_acc, vars_not_adapter >>

\* The loop skips an anchor (no name, or an href already seen).
AdSkipAnchor ==
  /\ ad_pc = "loop" /\ ad_n < MaxAnchors
  /\ \E a \in AnchorChoices :
       /\ ~LoopTakes(ad_fn, ad_browser, ad_seen, a)
       /\ ad_seen' = IF ad_fn = "parse_database_index" THEN ad_seen \cup { a.href } ELSE ad_seen
  /\ ad_n' = ad_n + 1
  /\ UNCHANGED << ad_fn, ad_browser, ad_pc, ad_cur, ad_items, ad_ret, ad_log,
                  det_soup, det_acc, vars_not_adapter >>

\* parse_detail_page: soup = browser.soup(url) if browser else get_soup(url)
DetFetch ==
  /\ ad_pc = "detail"
  /\ \E fetch \in DetailFetches :
       /\ det_soup' = fetch
       /\ ad_pc' = IF fetch.ok THEN "strategy1" ELSE DetailPcOnFetchError
       /\ ad_log' = Append(ad_log, [name |-> ad_cur.name, failed |-> ~fetch.ok])
  /\ det_acc' = EmptyAttrs
  /\ UNCHANGED << ad_fn, ad_browser, ad_n, ad_seen, ad_cur, ad_items, ad_ret, vars_not_adapter >>

DetStrategy1 ==
  /\ ad_pc = "strategy1"
  /\ det_acc' = Strategy1(det_soup, det_acc)
  /\ ad_pc' = "strategy2"
  /\ UNCHANGED << ad_fn, ad_browser, ad_n, ad_seen, ad_cur, ad_items, ad_ret, ad_log,
                  det_soup, vars_not_adapter >>

DetStrategy2 ==
  /\ ad_pc = "strategy2"
  /\ det_acc' = Strategy2(det_soup, det_acc)
  /\ ad_pc' = "strategy3"
  /\ UNCHANGED << ad_fn, ad_browser, ad_n, ad_seen, ad_cur, ad_items, ad_ret, ad_log,
                  det_soup, vars_not_adapter >>

DetStrategy3 ==
  /\ ad_pc = "strategy3"
  /\ NeedsStrategy3(det_acc)
  /\ det_acc' = Strategy3(det_soup, det_acc)
  /\ ad_pc' = "det_return"
  /\ UNCHANGED << ad_fn, ad_browser, ad_n, ad_seen, ad_cur, ad_items, ad_ret, ad_log,
                  det_soup, vars_not_adapter >>

DetSkipStrategy3 ==
  /\ ad_pc = "strategy3"
  /\ ~NeedsStrategy3(det_acc)
  /\ ad_pc' = "det_return"
  /\ UNCHANGED << ad_fn, ad_browser, ad_n, ad_seen, ad_cur, ad_items, ad_ret, ad_log,
                  det_soup, det_acc, vars_not_adapter >>

\* Back in the adapter: "if not img_src: try: ... header_img ... except: pass",
\* then items.append(ItemRow(...)).
AdAppend ==
  /\ ad_pc = "det_return"
  /\ \E img \in (IF LooksForHeaderImage(ad_fn, ad_browser, ad_cur.img)
                 THEN { "", "header.png" } ELSE { ad_cur.img }) :
       \E row \in BuildRows(img, ad_cur.name, det_acc, AdapterUrl(ad_fn), "") :
          ad_items' = Append(ad_items, row)
  /\ ad_pc' = "loop"
  /\ UNCHANGED << ad_fn, ad_browser, ad_n, ad_seen, ad_cur, ad_ret, ad_log,
                  det_soup, det_acc, vars_not_adapter >>

\* The loop is over: the adapter de-duplicates `items` and returns.
AdReturn ==
  /\ ad_pc = "loop"
  /\ ad_ret' = AdapterResult(ad_fn, ad_browser, ad_items)
  /\ ad_pc' = "ret"
  /\ UNCHANGED << ad_fn, ad_browser, ad_n, ad_seen, ad_cur, ad_items, ad_log,
                  det_soup, det_acc, vars_not_adapter >>

AdapterNext ==
  \/ AdFetchPage \/ AdTakeAnchor \/ AdSkipAnchor \/ DetFetch \/ DetStrategy1
  \/ DetStrategy2 \/ DetStrategy3 \/ DetSkipStrategy3 \/ AdAppend \/ AdReturn

SpecDetail == AdapterInit /\ [][AdapterNext]_vars

(***************************************************************************)
(* SpecMerge: the merge of a de-duplication loop on two records a and b    *)
(* with the same key: merge(a, b), merge(b, a) and merge(merge(a, b), b)   *)
(* in one run of the interpreter, where the same merge made twice gives    *)
(* the same record.                                                        *)
(***************************************************************************)
Bar == << "B","a","r" >>
bar == << "b","a","r" >>

FandomUrlA == "https://coralisland.fandom.com/wiki/Crop"

FandomUrlB == "https://coralisland.fandom.com/wiki/Fish"

JournalCrops == "pt-BR/journal-crops.json"

JournalFish == "pt-BR/journal-fish.json"

DatabaseJson == "/database-json"

Drivers == { "scrape_all", "scrape_fandom", "scrape_ptbr" }

\* The label sets the adapters of a driver hand to set_join: labels of the
\* vocabulary, and in the JSON capture of scrape_all whatever the payload holds.
MergeLabelSets(driver) ==
  { {}, { Spring }, { Fall, Winter } }
    \cup (IF driver = "scrape_all" THEN { { foo, bar }, { Foo, Bar } } ELSE {})

MergeSeasonCells(driver) == UNION { set_join(S) : S \in MergeLabelSets(driver) }

MergeWeatherCells == UNION { set_join(S) : S \in { {}, { Rainy } } }

MergePages(driver) ==
  IF driver = "scrape_all" THEN { DatabaseJson }
  ELSE IF driver = "scrape_fandom" THEN { FandomUrlA, FandomUrlB }
  ELSE { JournalCrops, JournalFish }

MergeCategories(driver) == IF driver = "scrape_ptbr" THEN { "crops", "peixes" } ELSE { "" }

MergeRecords(driver, images) ==
  { ItemRow(i, n, s, w, sp, c) :
      i \in images, n \in { Kale, lower(Kale) }, s \in MergeSeasonCells(driver),
      w \in MergeWeatherCells, sp \in MergePages(driver), c \in MergeCategories(driver) }

MergeInit ==
  /\ mg_driver \in Drivers
  /\ mg_a \in MergeRecords(mg_driver, { "", "a.png" })
  /\ mg_b \in MergeRecords(mg_driver, { "", "b.png" })
  /\ mg_memo = {}
  /\ mg_ab = NoRow /\ mg_ba = NoRow /\ mg_abb = NoRow /\ mg_done = {}
  /\ JoinIdle /\ AdapterIdle /\ PipeIdle /\ SoupIdle

\* The records a merge of prev and r can give now.
MergeCall(prev, r) ==
  LET known == { m \in mg_memo : m.prev = prev /\ m.r = r }
  IN  IF known # {} THEN { m.out : m \in known } ELSE MergeRows(mg_driver, prev, r)

MergeAB ==
  /\ "ab" \notin mg_done
  /\ \E out \in MergeCall(mg_a, mg_b) :
       /\ mg_ab' = out
       /\ mg_memo' = mg_memo \cup { [prev |-> mg_a, r |-> mg_b, out |-> out] }
  /\ mg_done' = mg_done \cup { "ab" }
  /\ UNCHANGED << mg_driver, mg_a, mg_b, mg_ba, mg_abb, vars_not_merge >>

MergeBA ==
  /\ "ba" \notin mg_done
  /\ \E out \in MergeCall(mg_b, mg_a) :
       /\ mg_ba' = out
       /\ mg_memo' = mg_memo \cup { [prev |-> mg_b, r |-> mg_a, out |-> out] }
  /\ mg_done' = mg_done \cup { "ba" }
  /\ UNCHANGED << mg_driver, mg_a, mg_b, mg_ab, mg_abb, vars_not_merge >>

MergeABB ==
  /\ "ab" \in mg_done /\ "abb" \notin mg_done
  /\ \E out \in MergeCall(mg_ab, mg_b) :
       /\ mg_abb' = out
       /\ mg_memo' = mg_memo \cup { [prev |-> mg_ab, r |-> mg_b, out |-> out] }
  /\ mg_done' = mg_done \cup { "abb" }
  /\ UNCHANGED << mg_driver, mg_a, mg_b, mg_ab, mg_ba, vars_not_merge >>

MergeNext == MergeAB \/ MergeBA \/ MergeABB

SpecMerge == MergeInit /\ [][MergeNext]_vars

(***************************************************************************)
(* SpecSoup: one call of get_soup(url, retries, backoff), with retries up   *)
(* to MaxRetries and backoff up to MaxBackoff half seconds (the defaults    *)
(* are 3 and 1.5 s), requests.get giving a response or raising on each      *)
(* attempt.                                                                 *)
(***************************************************************************)
MaxRetries == 3

MaxBackoff == 3

\* What requests.get(url, headers=HEADERS, timeout=20) can do on one attempt:
\* return a response with a status code and a body, or raise.
FetchOutcomes ==
  { [kind |-> "response", status_code |-> 200, text |-> "<html>crops</html>"],
    [kind |-> "response", status_code |-> 200, text |-> "<html>fish</html>"],
    [kind |-> "response", status_code |-> 404, text |-> "<html>not found</html>"],
    [kind |-> "response", status_code |-> 503, text |-> "<html>unavailable</html>"],
    [kind |-> "raise", exc |-> "ConnectionError"],
    [kind |-> "raise", exc |-> "Timeout"] }

\* if resp.status_code == 200
Succeeds(o) == o.kind = "response" /\ o.status_code = 200

\* BeautifulSoup(resp.text, "lxml")
BeautifulSoup(text) == [kind |-> "soup", text |-> text]

\* last_exc after an attempt that did not return: RuntimeError(f"HTTP {status}
\* for {url}") or the exception caught.
ExcOf(o) ==
  IF o.kind = "response" THEN [kind |-> "RuntimeError", status_code |-> o.status_code]
  ELSE [kind |-> o.exc]

\* raise last_exc; raising None is a TypeError.
Raised(last_exc) == IF last_exc = NoExc THEN [kind |-> "TypeError"] ELSE last_exc

HasNext_OneMore(i, retries) == i <= retries

\* for i in range(retries)
HasNext(i, retries) == i < retries

SleepDelay_Constant(backoff, i) == backoff

\* backoff * (i + 1)
SleepDelay(backoff, i) == backoff * (i + 1)

SoupInit ==
  /\ gs_pc = "loop"
  /\ gs_retries \in 0..MaxRetries
  /\ gs_backoff \in 1..MaxBackoff
  /\ gs_i = 0 /\ gs_last_exc = NoExc /\ gs_out = NoExc
  /\ gs_tried = << >> /\ gs_slept = << >>
  /\ JoinIdle /\ AdapterIdle /\ MergeIdle /\ PipeIdle

\* One attempt: the try block returns the soup of a 200 response; any other
\* response or an exception is kept in last_exc and the loop goes on to sleep.
GsAttempt ==
  /\ gs_pc = "loop" /\ HasNext(gs_i, gs_retries)
  /\ \E o \in FetchOutcomes :
       /\ gs_tried' = Append(gs_tried, o)
       /\ IF Succeeds(o)
          THEN /\ gs_pc' = "returned"
               /\ gs_out' = BeautifulSoup(o.text)
               /\ gs_last_exc' = gs_last_exc
          ELSE /\ gs_pc' = "sleep"
               /\ gs_out' = gs_out
               /\ gs_last_exc' = ExcOf(o)
  /\ UNCHANGED << gs_retries, gs_backoff, gs_i, gs_slept, vars_not_soup >>

\* time.sleep(backoff * (i + 1)), then the next turn of the loop.
GsSleep ==
  /\ gs_pc = "sleep"
  /\ gs_slept' = Append(gs_slept, SleepDelay(gs_backoff, gs_i))
  /\ gs_i' = gs_i + 1
  /\ gs_pc' = "loop"
  /\ UNCHANGED << gs_retries, gs_backoff, gs_last_exc, gs_out, gs_tried, vars_not_soup >>

\* The loop is over: raise last_exc.
GsRaise ==
  /\ gs_pc = "loop" /\ ~HasNext(gs_i, gs_retries)
  /\ gs_out' = Raised(gs_last_exc)
  /\ gs_pc' = "raised"
  /\ UNCHANGED << gs_retries, gs_backoff, gs_i, gs_last_exc, gs_tried, gs_slept,
                  vars_not_soup >>

SoupNext == GsAttempt \/ GsSleep \/ GsRaise

SpecSoup == SoupInit /\ [][SoupNext]_vars

\* requests.get has a timeout and time.sleep ends: a call that can take a step
\* takes it.
SpecSoupLive == SpecSoup /\ WF_vars(SoupNext)

(***************************************************************************)
(* Spec: one run of a pipeline driver, scrape_all, scrape_fandom or        *)
(* scrape_ptbr, on at most MaxUrls pages (scrape_ptbr: on its eleven       *)
(* journals), each adapter reading at most MaxAnchors anchors, nodes or    *)
(* journal entries or tables of at most MaxTrs rows, the run building at   *)
(* most MaxRows rows.                                                      *)
(***************************************************************************)
MaxUrls == 2

MaxRows == 3

MaxTrs == 3

BASE_URLS ==
  << "https://coral.guide/journal/produce/crops",
     "https://coral.guide/journal/produce/animalproducts",
     "https://coral.guide/journal/produce/artisanproducts",
     "https://coral.guide/journal/produce/ocean" >>

FANDOM_URLS ==
  << "https://coralisland.fandom.com/wiki/Crop",
     "https://coralisland.fandom.com/wiki/Animal_Products",
     "https://coralisland.fandom.com/wiki/Artisan_Goods",
     "https://coralisland.fandom.com/wiki/Ocean_Farming" >>

\* What parse_detail_page returns for the detail pages of a run: one whose fetch
\* raises, one with season and weather in its table and badges, one with only
\* the season in its table.
DetailOutcomes ==
  { parse_detail_page(f) :
      f \in { FetchError,
              Soup(<< spring >>, << Rainy >>, JournalSunnyFall),
              Soup(<< spring >>, << >>, JournalSunnyFall) } }

SeqsUpTo(S, n) == UNION { [1..k -> S] : k \in 0..n }

SpaceBeet == << " ","B","e","e","t" >>
NameHeader == << "N","a","m","e" >>
KaleSpringText == << "K","a","l","e"," ","S","p","r","i","n","g" >>
KaleWinterText == << "k","a","l","e"," "," ","w","i","n","t","e","r" >>

ThRow ==
  [tds |-> FALSE, img |-> NoImg, a_title |-> << >>, a_text |-> << >>, td0 |-> << >>,
   text |-> NameHeader, metas |-> << >>]

\* The rows of a wiki table: a header row, an item with a lazy-loaded image and a
\* season in its text, the same item without image and with weather in an icon's
\* alt text, the same item with nothing, an item named by its first cell only,
\* a row whose first cell is a column title.
FandomTrs ==
  { ThRow,
    [tds |-> TRUE,
     img |-> [present |-> TRUE, srcset |-> "", lazy |-> "kale.png",
              src |-> "data:image/gif;base64,R0lGOD"],
     a_title |-> Kale, a_text |-> << >>, td0 |-> << >>, text |-> KaleSpringText,
     metas |-> << Kale >>],
    [tds |-> TRUE, img |-> NoImg, a_title |-> << >>, a_text |-> kale_sp, td0 |-> << >>,
     text |-> KaleWinterText, metas |-> << Rainy >>],
    [tds |-> TRUE, img |-> NoImg, a_title |-> Kale, a_text |-> << >>, td0 |-> << >>,
     text |-> Kale, metas |-> << >>],
    [tds |-> TRUE,
     img |-> [present |-> TRUE, srcset |-> "", lazy |-> "",
              src |-> "data:image/gif;base64,R0lGOD"],
     a_title |-> << >>, a_text |-> << >>, td0 |-> SpaceBeet, text |-> SpaceBeet,
     metas |-> << >>],
    [tds |-> TRUE, img |-> NoImg, a_title |-> << >>, a_text |-> << >>, td0 |-> NameHeader,
     text |-> NameHeader, metas |-> << >>] }

\* What the loop over trs[1:] reads of each tr of the model.
FandomParsed ==
  [tr \in FandomTrs |->
     [takes |-> FandomTakes(tr), image |-> image_url_from_tag(tr.img),
      name |-> FandomName(tr), attrs |-> FandomAttrs(tr)]]

FandomTables ==
  { << >> } \cup { << ThRow >> \o t : t \in SeqsUpTo(FandomTrs \ { ThRow }, MaxTrs - 1) }

\* The lists `rows` can be after the loop over the trs of a table.
RECURSIVE FandomTableRows(_, _, _)
FandomTableRows(trs, url, rows) ==
  IF trs = << >> THEN { rows }
  ELSE IF ~FandomParsed[Head(trs)].takes THEN FandomTableRows(Tail(trs), url, rows)
  ELSE UNION { FandomTableRows(Tail(trs), url, Append(rows, row)) :
                 row \in BuildRows(FandomParsed[Head(trs)].image, FandomParsed[Head(trs)].name,
                                   FandomParsed[Head(trs)].attrs, url, "") }

kale_id == << "k","a","l","e" >>
beet_id == << "b","e","e","t" >>

strawberry == << "s","t","r","a","w","b","e","r","r","y" >>
Strawberry == << "S","t","r","a","w","b","e","r","r","y" >>

\* The files under pt-BR/ when crops.json holds the one entry {id: "strawberry",
\* displayName: "Strawberry", growableSeason: ["spring"]} and the other files
\* of the maps are missing or empty.
StrawberryFiles ==
  [items |-> << >>,
   crops |-> << [pickupableItem |-> NoItem, id |-> strawberry, displayName |-> Strawberry,
                 growableSeason |-> << spring >>] >>,
   fish |-> << >>, insects |-> << >>, seacritters |-> << >>]

\* The files under pt-BR/: two items, the second with a displayName of its own,
\* with the first one's name in another spelling, or with none; two crops with
\* their harvested product, a fish, an insect and a sea critter.
KalePtbrFiles ==
  { [items |-> << [id |-> kale_id, displayName |-> Kale, iconName |-> ic],
                  [id |-> beet_id, displayName |-> dn, iconName |-> "beet"] >>,
     crops |-> << [pickupableItem |-> [id |-> kale_id], id |-> << >>, displayName |-> << >>,
                   growableSeason |-> << spring >>],
                  [pickupableItem |-> [id |-> beet_id], id |-> << >>, displayName |-> << >>,
                   growableSeason |-> << winter >>] >>,
     fish |-> << [id |-> kale_id,
                  spawnSettings |-> << [spawnSeason |-> [k \in { summer, winter } |-> k = summer],
                                        spawnWeather |-> [k \in { rain } |-> TRUE]] >>] >>,
     insects |-> << [id |-> beet_id, spawnSeason |-> [k \in { fall } |-> TRUE],
                     spawnWeather |-> [k \in { sunny } |-> TRUE]] >>,
     seacritters |-> << [id |-> kale_id, spawnSeason |-> [k \in { autumn } |-> TRUE],
                         spawnWeather |-> [k \in { blizzard } |-> TRUE]] >>] :
      ic \in { "", "kale" }, dn \in { Beet, kale_sp, kale_id, << >> } }

PtbrFiles == KalePtbrFiles \cup { StrawberryFiles }

\* The key of a journal entry; << >> is an entry without one.
JournalKeys == { kale_id, beet_id, << >> }

\* The keys of the journals that go with the files fs.
JournalKeysOf(fs) == IF fs = StrawberryFiles THEN { strawberry, << >> } ELSE JournalKeys

\* The candidate nodes of a captured payload.
JsonNodes ==
  { [name |-> Kale, icon |-> "kale.png", image |-> "", seasons |-> JsonList(<< spring >>),
     season |-> NoList, weather |-> JsonStr(rainy)],
    [name |-> kale_sp, icon |-> "", image |-> "", seasons |-> NoList,
     season |-> JsonStr(Spring), weather |-> JsonList(<< Rainy >>)],
    [name |-> Beet, icon |-> "", image |-> "beet.png", seasons |-> JsonList(<< Winter, Foo >>),
     season |-> NoList, weather |-> NoList],
    [name |-> << >>, icon |-> "misc.png", image |-> "", seasons |-> NoList,
     season |-> NoList, weather |-> NoList] }

PipeInit ==
  /\ p_driver \in Drivers
  /\ p_pc = "start"
  /\ p_browser = FALSE
  /\ p_nurls = IF p_driver = "scrape_ptbr" THEN Len(categories) ELSE MaxUrls
  /\ p_i = 0 /\ p_fn = "none" /\ p_n = 0 /\ p_seen = {} /\ p_items = << >>
  /\ files \in IF p_driver = "scrape_ptbr" THEN PtbrFiles ELSE { NoFiles }
  /\ all_rows = << >> /\ by_name = << >> /\ p_k = 0 /\ result = << >> /\ created = {}
  /\ p_visited = << >> /\ p_failed = {} /\ p_indexed = FALSE
  /\ pw_state = "none" /\ b_state = "none" /\ b_late = FALSE
  /\ JoinIdle /\ AdapterIdle /\ MergeIdle /\ SoupIdle

\* browser.soup, extract_items_from_journal and capture_json_from_page ask the
\* browser for a new page: assert self._browser is not None, then new_page.
Late(late, use_browser, b) == late \/ (use_browser /\ b # "open")

\* The run may build one more row.
Room == Len(all_rows) + Len(p_items) < MaxRows

\* scrape_all: with BrowserSession(headless=True) as browser.  __enter__ returns
\* None without Playwright, returns the session when the driver starts and the
\* browser launches, or raises from start() or from launch(); __exit__ is not
\* called when __enter__ raises.
ScrapeAllEnter ==
  /\ p_driver = "scrape_all" /\ p_pc = "start"
  /\ \/ p_pc' = "urls" /\ p_browser' = FALSE /\ pw_state' = "none" /\ b_state' = "none"
     \/ p_pc' = "urls" /\ p_browser' = TRUE /\ pw_state' = "running" /\ b_state' = "open"
     \/ p_pc' = "raised" /\ p_browser' = FALSE /\ pw_state' = "none" /\ b_state' = "none"
     \/ p_pc' = "raised" /\ p_browser' = FALSE /\ pw_state' = "running" /\ b_state' = "none"
  /\ UNCHANGED << p_driver, p_nurls, p_i, p_fn, p_n, p_seen, p_items, files, all_rows,
                  by_name, p_k, result, created, p_visited, p_failed, b_late, p_indexed,
                  vars_not_pipe >>

\* scrape_fandom and scrape_ptbr (whose maps are item_info and its kin) start
\* their loop over the sources.
DriverStart ==
  /\ p_driver \in { "scrape_fandom", "scrape_ptbr" } /\ p_pc = "start"
  /\ p_pc' = "urls"
  /\ UNCHANGED << p_driver, p_browser, p_nurls, p_i, p_fn, p_n, p_seen, p_items, files,
                  all_rows, by_name, p_k, result, created, p_visited, p_failed,
                  pw_state, b_state, b_late, p_indexed, vars_not_pipe >>

SourceAdapter(driver) ==
  IF driver = "scrape_all" THEN "parse_list_page"
  ELSE IF driver = "scrape_fandom" THEN "parse_fandom_table"
  ELSE "parse_journal"

\* The driver calls the adapter of the next source, which gets its page or file.
PageOpen ==
  /\ p_pc = "urls" /\ p_i < p_nurls
  /\ p_fn' = SourceAdapter(p_driver)
  /\ p_pc' = "page"
  /\ p_n' = 0 /\ p_seen' = {} /\ p_items' = << >>
  /\ p_visited' = Append(p_visited, p_i + 1)
  /\ b_late' = Late(b_late, p_browser, b_state)
  /\ UNCHANGED << p_driver, p_browser, p_nurls, p_i, files, all_rows, by_name, p_k,
                  result, created, p_failed, pw_state, b_state, p_indexed, vars_not_pipe >>

\* except Exception as e: print(...) leaves all_rows as it is.
RowsAfterFailure_Reset(rows) == << >>

RowsAfterFailure(rows) == rows

\* The adapter of the next source raises on its page and the driver's except
\* clause goes on with the next source; load_json of parse_journal never raises.
PageFetchFails ==
  /\ p_pc = "urls" /\ p_i < p_nurls
  /\ p_driver \in { "scrape_all", "scrape_fandom" }
  /\ p_i' = p_i + 1
  /\ all_rows' = RowsAfterFailure(all_rows)
  /\ p_visited' = Append(p_visited, p_i + 1)
  /\ p_failed' = p_failed \cup { p_i + 1 }
  /\ b_late' = Late(b_late, p_browser, b_state)
  /\ UNCHANGED << p_driver, p_pc, p_browser, p_nurls, p_fn, p_n, p_seen, p_items, files,
                  by_name, p_k, result, created, pw_state, b_state, p_indexed,
                  vars_not_pipe >>

\* source_page of the rows of the running adapter
PageUrl ==
  IF p_fn = "parse_list_page" THEN BASE_URLS[p_i + 1]
  ELSE IF p_fn = "parse_fandom_table" THEN FANDOM_URLS[p_i + 1]
  ELSE IF p_fn = "parse_journal" THEN categories[p_i + 1].path
  ELSE DatabaseUrl

\* parse_list_page / parse_database_index: one anchor taken, its detail page
\* parsed, its row appended.
ListItem ==
  /\ p_pc = "page" /\ p_fn \in { "parse_list_page", "parse_database_index" }
  /\ p_n < MaxAnchors /\ Room
  /\ \E a \in AnchorChoices :
       /\ LoopTakes(p_fn, p_browser, p_seen, a)
       /\ p_seen' = IF p_fn = "parse_list_page" /\ ~p_browser
                    THEN p_seen ELSE p_seen \cup { a.href }
       /\ \E attrs \in DetailOutcomes :
            \E img \in (IF LooksForHeaderImage(p_fn, p_browser, a.img)
                        THEN { "", "header.png" } ELSE { a.img }) :
               \E row \in BuildRows(img, LoopName(p_fn, p_browser, a), attrs, PageUrl, "") :
                  /\ p_items' = Append(p_items, row)
                  /\ created' = created \cup { row }
  /\ p_n' = p_n + 1
  /\ b_late' = Late(b_late, p_browser, b_state)
  /\ UNCHANGED << p_driver, p_pc, p_browser, p_nurls, p_i, p_fn, files, all_rows,
                  by_name, p_k, result, p_visited, p_failed, pw_state, b_state,
                  p_indexed, vars_not_pipe >>

\* parse_list_page / parse_database_index: one anchor skipped.
ListSkip ==
  /\ p_pc = "page" /\ p_fn \in { "parse_list_page", "parse_database_index" }
  /\ p_n < MaxAnchors
  /\ \E a \in AnchorChoices :
       /\ ~LoopTakes(p_fn, p_browser, p_seen, a)
       /\ p_seen' = IF p_fn = "parse_database_index" THEN p_seen \cup { a.href } ELSE p_seen
  /\ p_n' = p_n + 1
  /\ UNCHANGED << p_driver, p_pc, p_browser, p_nurls, p_i, p_fn, p_items, files,
                  all_rows, by_name, p_k, result, created, p_visited, p_failed,
                  pw_state, b_state, b_late, p_indexed, vars_not_pipe >>

\* parse_fandom_table: one table of the page.
FandomTable ==
  /\ p_pc = "page" /\ p_fn = "parse_fandom_table"
  /\ p_n < MaxAnchors
  /\ \E table \in FandomTables :
       \E rows \in (IF Len(table) < 3 THEN { p_items }
                    ELSE FandomTableRows(Tail(table), PageUrl, p_items)) :
          /\ Len(all_rows) + Len(rows) <= MaxRows
          /\ p_items' = rows
          /\ created' = created \cup Range(rows)
  /\ p_n' = p_n + 1
  /\ UNCHANGED << p_driver, p_pc, p_browser, p_nurls, p_i, p_fn, p_seen, files,
                  all_rows, by_name, p_k, result, p_visited, p_failed, pw_state,
                  b_state, b_late, p_indexed, vars_not_pipe >>

\* parse_journal: one entry of the journal, skipped when it has no key.
JournalEntry ==
  /\ p_pc = "page" /\ p_fn = "parse_journal"
  /\ p_n < MaxAnchors /\ Room
  /\ \E key \in JournalKeysOf(files) :
       IF key = << >> THEN UNCHANGED << p_items, created >>
       ELSE \E row \in BuildRows(item_info(files, key).image,
                                 PyOr(item_info(files, key).name, key),
                                 JournalAttrs(files, categories[p_i + 1].category, key),
                                 PageUrl, label_map(categories[p_i + 1].category)) :
               /\ p_items' = Append(p_items, row)
               /\ created' = created \cup { row }
  /\ p_n' = p_n + 1
  /\ UNCHANGED << p_driver, p_pc, p_browser, p_nurls, p_i, p_fn, p_seen, files,
                  all_rows, by_name, p_k, result, p_visited, p_failed, pw_state,
                  b_state, b_late, p_indexed, vars_not_pipe >>

\* What the running adapter returns from `items` / `rows`.
PageResult ==
  IF p_fn = "parse_fandom_table" THEN DedupByScore(p_items, << >>, FALSE)
  ELSE IF p_fn = "parse_journal" THEN p_items
  ELSE AdapterResult(p_fn, p_browser, p_items)

\* The adapter returns and the driver extends all_rows.
PageReturn ==
  /\ p_pc = "page"
  /\ all_rows' = all_rows \o PageResult
  /\ IF p_fn = "parse_database_index"
     THEN p_pc' = "exit" /\ p_i' = p_i
     ELSE p_pc' = "urls" /\ p_i' = p_i + 1
  /\ p_fn' = "none" /\ p_n' = 0 /\ p_seen' = {} /\ p_items' = << >>
  /\ UNCHANGED << p_driver, p_browser, p_nurls, files, by_name, p_k, result, created,
                  p_visited, p_failed, pw_state, b_state, b_late, p_indexed,
                  vars_not_pipe >>

\* The loop over the sources is over.
SourcesDone ==
  /\ p_pc = "urls" /\ p_i = p_nurls
  /\ IF p_driver = "scrape_all"
     THEN p_pc' = (IF Len(all_rows) = 0 THEN "fallback" ELSE "exit") /\ p_k' = p_k
     ELSE p_pc' = "dedup" /\ p_k' = 1
  /\ UNCHANGED << p_driver, p_browser, p_nurls, p_i, p_fn, p_n, p_seen, p_items, files,
                  all_rows, by_name, result, created, p_visited, p_failed, pw_state,
                  b_state, b_late, p_indexed, vars_not_pipe >>

\* scrape_all, no row so far: with a browser capture_json_from_page returns the
\* payloads or raises into the except clause of the fallback.
JsonCapture ==
  /\ p_pc = "fallback" /\ p_browser
  /\ p_pc' \in { "json", "exit" }
  /\ p_n' = 0
  /\ b_late' = Late(b_late, p_browser, b_state)
  /\ UNCHANGED << p_driver, p_browser, p_nurls, p_i, p_fn, p_seen, p_items, files,
                  all_rows, by_name, p_k, result, created, p_visited, p_failed,
                  pw_state, b_state, p_indexed, vars_not_pipe >>

FallbackWithoutBrowser ==
  /\ p_pc = "fallback" /\ ~p_browser
  /\ p_pc' = "index"
  /\ UNCHANGED << p_driver, p_browser, p_nurls, p_i, p_fn, p_n, p_seen, p_items, files,
                  all_rows, by_name, p_k, result, created, p_visited, p_failed,
                  pw_state, b_state, b_late, p_indexed, vars_not_pipe >>

\* One candidate node of the captured JSON becomes a row of all_rows.
JsonNode ==
  /\ p_pc = "json" /\ p_n < MaxAnchors /\ Room
  /\ \E node \in JsonNodes :
       \E row \in BuildRows(ImgOr(node.icon, node.image), text_norm(node.name),
                            JsonAttrs(node), DatabaseJson, "") :
          /\ all_rows' = Append(all_rows, row)
          /\ created' = created \cup { row }
  /\ p_n' = p_n + 1
  /\ UNCHANGED << p_driver, p_pc, p_browser, p_nurls, p_i, p_fn, p_seen, p_items, files,
                  by_name, p_k, result, p_visited, p_failed, pw_state, b_state, b_late,
                  p_indexed, vars_not_pipe >>

JsonDone ==
  /\ p_pc = "json"
  /\ p_pc' = "index"
  /\ p_n' = 0
  /\ UNCHANGED << p_driver, p_browser, p_nurls, p_i, p_fn, p_seen, p_items, files,
                  all_rows, by_name, p_k, result, created, p_visited, p_failed,
                  pw_state, b_state, b_late, p_indexed, vars_not_pipe >>

IndexNeeded_Always(rows) == TRUE

\* the second "if len(all_rows) == 0" of the fallback, after the JSON capture
IndexNeeded(rows) == Len(rows) = 0

\* if len(all_rows) == 0: parse_database_index gets its page, or raises into the
\* except clause of the fallback.
IndexOpen ==
  /\ p_pc = "index" /\ IndexNeeded(all_rows)
  /\ \/ p_pc' = "page" /\ p_fn' = "parse_database_index"
     \/ p_pc' = "exit" /\ p_fn' = p_fn
  /\ p_n' = 0 /\ p_seen' = {} /\ p_items' = << >>
  /\ p_indexed' = TRUE
  /\ b_late' = Late(b_late, p_browser, b_state)
  /\ UNCHANGED << p_driver, p_browser, p_nurls, p_i, files, all_rows, by_name, p_k,
                  result, created, p_visited, p_failed, pw_state, b_state, vars_not_pipe >>

IndexNotNeeded ==
  /\ p_pc = "index" /\ ~IndexNeeded(all_rows)
  /\ p_pc' = "exit"
  /\ UNCHANGED << p_driver, p_browser, p_nurls, p_i, p_fn, p_n, p_seen, p_items, files,
                  all_rows, by_name, p_k, result, created, p_visited, p_failed,
                  pw_state, b_state, b_late, p_indexed, vars_not_pipe >>

Closed_Leak(b) == b

\* __exit__: if self._browser: self._browser.close()
Closed(b) == IF b = "open" THEN "closed" ELSE b

\* __exit__: finally: if self._pw: self._pw.stop()
Stopped(pw) == IF pw = "running" THEN "stopped" ELSE pw

\* BrowserSession.__exit__, then the de-duplication loop starts.
ScrapeAllExit ==
  /\ p_pc = "exit"
  /\ p_pc' = "dedup"
  /\ p_k' = 1
  /\ b_state' = Closed(b_state)
  /\ pw_state' = Stopped(pw_state)
  /\ UNCHANGED << p_driver, p_browser, p_nurls, p_i, p_fn, p_n, p_seen, p_items, files,
                  all_rows, by_name, result, created, p_visited, p_failed, b_late,
                  p_indexed, vars_not_pipe >>

\* One turn of "for r in all_rows" of the driver's de-duplication loop.
DedupTurn ==
  /\ p_pc = "dedup" /\ p_k <= Len(all_rows)
  /\ by_name' \in DedupTurnOutcomes(p_driver, by_name, all_rows[p_k])
  /\ p_k' = p_k + 1
  /\ UNCHANGED << p_driver, p_pc, p_browser, p_nurls, p_i, p_fn, p_n, p_seen, p_items,
                  files, all_rows, result, created, p_visited, p_failed, pw_state,
                  b_state, b_late, p_indexed, vars_not_pipe >>

\* return list(by_name.values()), which scrape_ptbr sorts first.
DriverReturn ==
  /\ p_pc = "dedup" /\ p_k > Len(all_rows)
  /\ result' = IF p_driver = "scrape_ptbr" THEN SortRows(by_name, << >>) ELSE by_name
  /\ p_pc' = "done"
  /\ UNCHANGED << p_driver, p_browser, p_nurls, p_i, p_fn, p_n, p_seen, p_items, files,
                  all_rows, by_name, p_k, created, p_visited, p_failed, pw_state,
                  b_state, b_late, p_indexed, vars_not_pipe >>

Next ==
  \/ ScrapeAllEnter \/ DriverStart \/ PageOpen \/ PageFetchFails \/ ListItem \/ ListSkip
  \/ FandomTable \/ JournalEntry \/ PageReturn \/ SourcesDone \/ JsonCapture
  \/ FallbackWithoutBrowser \/ JsonNode \/ JsonDone \/ IndexOpen \/ IndexNotNeeded
  \/ ScrapeAllExit \/ DedupTurn \/ DriverReturn

Spec == PipeInit /\ [][Next]_vars

(***************************************************************************)
(* The records of a run                                                    *)
(***************************************************************************)
Deduping == p_pc \in { "dedup", "done" }

\* The accumulated records: by_name while the loop runs, the returned list after.
Records == IF p_pc = "done" THEN result ELSE by_name

\* The rows of all_rows the de-duplication loop has gone through.
Processed == SubSeq(all_rows, 1, p_k - 1)

\* The positions in Processed of the rows with the key of the record o.
SameKey(o) == { i \in 1..Len(Processed) : lower(Processed[i].name) = lower(o.name) }

FirstOf(S) == CHOOSE i \in S : \A j \in S : i <= j

LowerLabels(cell) == { lower(l) : l \in cell_set(cell) }

\* normalize(name).lower()
NormKey(name) == lower(text_norm(name))

(***************************************************************************)
(* C1                                                                      *)
(***************************************************************************)
\* C1 (as stated): no two records of a driver's output have names that are equal
\* after whitespace normalization and lower-casing.
C1_OneRecordPerNormalizedName ==
  p_pc = "done" =>
    \A i, j \in 1..Len(result) :
       i # j => NormKey(result[i].name) # NormKey(result[j].name)

C3_FirstSeenNameAndSource ==
  Deduping =>
    /\ \A i \in 1..Len(Processed) :
          Cardinality({ n \in 1..Len(Records) :
                          lower(Records[n].name) = lower(Processed[i].name) }) = 1
    /\ \A n \in 1..Len(Records) :
          /\ SameKey(Records[n]) # {}
          /\ Records[n].name = Processed[FirstOf(SameKey(Records[n]))].name
          /\ Records[n].source_page = Processed[FirstOf(SameKey(Records[n]))].source_page

C3_Witness ==
  /\ p_pc = "done"
  /\ Len(all_rows) = 3
  /\ all_rows[1].name = Kale /\ all_rows[2].name = lower(Kale) /\ all_rows[3].name = Kale
  /\ all_rows[2].source_page # all_rows[1].source_page
  /\ Len(result) = 1
  /\ result[1].name = Kale /\ result[1].source_page = all_rows[1].source_page

(***************************************************************************)
(* C4                                                                      *)
(***************************************************************************)
WithImage(o) == { i \in SameKey(o) : Processed[i].image # "" }

WithCategory(o) == { i \in SameKey(o) : Processed[i].category # "" }

\* C4: the image of an accumulated record is that of the earliest row with its
\* key that has a non-empty image, and "" when none has; likewise its category.
C4_FirstNonEmptyImageAndCategory ==
  Deduping =>
    \A n \in 1..Len(Records) :
       /\ Records[n].image =
            IF WithImage(Records[n]) = {} THEN ""
            ELSE Processed[FirstOf(WithImage(Records[n]))].image
       /\ Records[n].category =
            IF WithCategory(Records[n]) = {} THEN ""
            ELSE Processed[FirstOf(WithCategory(Records[n]))].category

C4_Witness ==
  /\ p_pc = "done"
  /\ Len(all_rows) = 3
  /\ SameKey(all_rows[1]) = { 1, 2, 3 }
  /\ all_rows[1].image = "" /\ all_rows[2].image # "" /\ all_rows[3].image = ""
  /\ all_rows[1].category # "" /\ all_rows[2].category # all_rows[1].category
  /\ all_rows[3].category \notin { all_rows[1].category, all_rows[2].category }
  /\ result[1].image = all_rows[2].image
  /\ result[1].category = all_rows[1].category

(***************************************************************************)
(* C6                                                                      *)
(***************************************************************************)
\* The positions in Processed of the rows with the normalized lower-cased name
\* of the record o.
SameNormKey(o) ==
  { i \in 1..Len(Processed) : NormKey(Processed[i].name) = NormKey(o.name) }

\* C6: rows whose normalized lower-cased names differ are never combined: every
\* season and weather label, the image and the category of an accumulated record
\* come from rows with its own normalized lower-cased name.
C6_MergeIsNameKeyScoped ==
  Deduping =>
    \A n \in 1..Len(Records) :
       /\ cell_set(Records[n].seasons) \subseteq
            UNION { cell_set(Processed[i].seasons) : i \in SameNormKey(Records[n]) }
       /\ cell_set(Records[n].weather) \subseteq
            UNION { cell_set(Processed[i].weather) : i \in SameNormKey(Records[n]) }
       /\ Records[n].image \in
            { "" } \cup { Processed[i].image : i \in SameNormKey(Records[n]) }
       /\ Records[n].category \in
            { "" } \cup { Processed[i].category : i \in SameNormKey(Records[n]) }

C6_Witness ==
  /\ p_pc = "done"
  /\ Len(all_rows) = 3 /\ Len(result) = 2
  /\ \E n, m \in 1..2 :
       /\ Cardinality(SameKey(result[n])) = 2
       /\ Cardinality(SameKey(result[m])) = 1
       /\ result[m].image # "" /\ result[n].image = ""
       /\ result[n].seasons # << >> /\ result[m].seasons = << >>

(***************************************************************************)
(* C5                                                                      *)
(***************************************************************************)
\* C5 (as stated): merge(merge(a, b), b) = merge(a, b) in every field.
C5_MergeIsIdempotent ==
  "abb" \in mg_done => mg_abb = mg_ab

(***************************************************************************)
(* C7                                                                      *)
(***************************************************************************)
\* C7 (as stated): merge(a, b) and merge(b, a) have the same seasons and the
\* same weather.
C7_MergeIsCommutativeInContent ==
  { "ab", "ba" } \subseteq mg_done =>
    /\ cell_set(mg_ab.seasons) = cell_set(mg_ba.seasons)
    /\ cell_set(mg_ab.weather) = cell_set(mg_ba.weather)

(***************************************************************************)
(* C8                                                                      *)
(***************************************************************************)
Written == split(sj_out, Sep)

IsRecognized(l) == lower(l) \in canon_lower

CanonIndex(l) == CHOOSE i \in 1..Len(canon) : lower(canon[i]) = lower(l)

WrittenBefore(a, b) ==
  \/ IsRecognized(a) /\ ~IsRecognized(b)
  \/ IsRecognized(a) /\ IsRecognized(b) /\ CanonIndex(a) < CanonIndex(b)
  \/ ~IsRecognized(a) /\ ~IsRecognized(b) /\ StrLess(a, b)

WrittenInOrder ==
  \A i, j \in 1..Len(Written) : i < j => WrittenBefore(Written[i], Written[j])

C9_FulltextFillsOnlyTheGap ==
  [][ ad_pc = "strategy3" =>
        /\ (det_acc' # det_acc => NeedsStrategy3(det_acc))
        /\ (det_acc.weather # {} => det_acc'.weather = det_acc.weather)
        /\ (det_acc.seasons # {} => det_acc'.seasons = det_acc.seasons) ]_vars

(***************************************************************************)
(* C10                                                                     *)
(***************************************************************************)
SameKeyCount(i) ==
  Cardinality({ j \in 1..Len(ad_log) : lower(ad_log[j].name) = lower(ad_log[i].name) })

\* C10: a detail page whose fetch raises never makes the adapter raise; the
\* adapter builds one row per item it called parse_detail_page for, the row of an
\* item whose fetch raised has empty seasons and weather, and the returned list
\* holds a row for every item's name (the item's own row when no other item of
\* the page has its name).
C10_DetailFailureIsNotFatal ==
  /\ ad_pc = "raised" => ad_log = << >>
  /\ ad_pc \in { "loop", "ret" } =>
       /\ Len(ad_items) = Len(ad_log)
       /\ \A i \in 1..Len(ad_log) :
            /\ ad_items[i].name = ad_log[i].name
            /\ ad_log[i].failed =>
                 ad_items[i].seasons = << >> /\ ad_items[i].weather = << >>
  /\ ad_pc = "ret" =>
       \A i \in 1..Len(ad_log) :
          /\ \E j \in 1..Len(ad_ret) : lower(ad_ret[j].name) = lower(ad_log[i].name)
          /\ SameKeyCount(i) = 1 => \E j \in 1..Len(ad_ret) : ad_ret[j] = ad_items[i]

C10_Witness ==
  /\ ad_pc = "ret"
  /\ Len(ad_log) = 2
  /\ ad_log[1].failed /\ ~ad_log[2].failed
  /\ Len(ad_ret) = 2
  /\ ad_ret[1].seasons = << >> /\ ad_ret[1].weather = << >>
  /\ ad_ret[2].seasons # << >>

(***************************************************************************)
(* C11                                                                     *)
(***************************************************************************)
\* The driver has left its loop over the sources.
PastSources ==
  \/ p_pc \in { "fallback", "json", "index", "exit", "dedup", "done" }
  \/ p_pc = "page" /\ p_fn = "parse_database_index"

\* << 1, ..., n >>
UpTo(n) == [j \in 1..n |-> j]

\* A row with the key of c is among rows.
Represented(c, rows) == \E i \in 1..Len(rows) : lower(rows[i].name) = lower(c.name)

\* C11: in scrape_all and scrape_fandom the adapter is called on the sources in
\* the order of urls, a source whose adapter raised is followed by the next one,
\* the loop is left only when every source has been called, and the key of every
\* row built on a source whose adapter returned stays in all_rows and is in the
\* returned list, whichever sources failed.
C11_SourceFailureIsIsolated ==
  p_driver \in { "scrape_all", "scrape_fandom" } =>
    /\ \E n \in 0..p_nurls : p_visited = UpTo(n)
    /\ p_failed \subseteq Range(p_visited)
    /\ PastSources => p_visited = UpTo(p_nurls)
    /\ \A c \in created :
         (p_pc = "page" => c.source_page # PageUrl) => Represented(c, all_rows)
    /\ p_pc = "done" => \A c \in created : Represented(c, result)

C11_Witness ==
  /\ p_pc = "done"
  /\ p_driver \in { "scrape_all", "scrape_fandom" }
  /\ p_visited = << 1, 2 >>
  /\ p_failed = { 2 }
  /\ Len(result) = 2
  /\ \A n \in 1..Len(result) : result[n].source_page \in { BASE_URLS[1], FANDOM_URLS[1] }

\* The other half of the case: the first source failed and the second one gave
\* the records of the output.
C11_LaterSourceStillProcessed ==
  /\ p_pc = "done"
  /\ p_driver \in { "scrape_all", "scrape_fandom" }
  /\ p_failed = { 1 }
  /\ Len(result) = 2
  /\ \A n \in 1..Len(result) : result[n].source_page \in { BASE_URLS[2], FANDOM_URLS[2] }

(***************************************************************************)
(* C12                                                                     *)
(***************************************************************************)
\* C12: when get_soup returns, the attempt it returns from is the first one that
\* succeeded, the soup is made of that attempt's body, the attempt is at most the
\* retries-th, and before it get_soup slept once after every failed attempt, the
\* i-th time for backoff * i.
C12_ReturnsAfterBackoffs ==
  gs_pc = "returned" =>
    LET k == Len(gs_tried)
    IN  /\ 1 <= k /\ k <= gs_retries
        /\ Succeeds(gs_tried[k])
        /\ \A i \in 1..(k - 1) : ~Succeeds(gs_tried[i])
        /\ gs_out = BeautifulSoup(gs_tried[k].text)
        /\ Len(gs_slept) = k - 1
        /\ \A i \in 1..(k - 1) : gs_slept[i] = gs_backoff * i

\* Two failures, then a success on the third attempt, with the default backoff
\* of 1.5 s: two sleeps, of 1.5 s and 3 s.
C12_Witness ==
  /\ gs_pc = "returned"
  /\ gs_retries = 3 /\ gs_backoff = 3
  /\ Len(gs_tried) = 3
  /\ ~Succeeds(gs_tried[1]) /\ ~Succeeds(gs_tried[2]) /\ Succeeds(gs_tried[3])
  /\ gs_slept = << 3, 6 >>
  /\ gs_out = BeautifulSoup("<html>fish</html>")

(***************************************************************************)
(* C13                                                                     *)
(***************************************************************************)
GsEnded == gs_pc \in { "returned", "raised" }

\* get_soup raises only when no attempt succeeded, and then the exception is
\* the one of the last attempt.
GsBounded ==
  /\ Len(gs_tried) <= gs_retries
  /\ gs_pc = "raised" =>
       /\ gs_out.kind # "soup"
       /\ Len(gs_tried) = gs_retries
       /\ \A i \in 1..Len(gs_tried) : ~Succeeds(gs_tried[i])
       /\ gs_tried # << >> => gs_out = ExcOf(gs_tried[Len(gs_tried)])

\* C13: get_soup makes at most `retries` attempts and ends; when every attempt
\* failed, by an exception or a status other than 200, it raises the error of the
\* last attempt and returns no soup.
C13_GetSoupIsBounded == []GsBounded /\ <>GsEnded

C13_Witness ==
  /\ gs_pc = "raised"
  /\ gs_retries = 3
  /\ Len(gs_tried) = 3
  /\ gs_tried[2].kind = "raise"
  /\ gs_tried[3].kind = "response" /\ gs_tried[3].status_code = 503
  /\ gs_out = [kind |-> "RuntimeError", status_code |-> 503]

(***************************************************************************)
(* C14                                                                     *)
(***************************************************************************)
\* C14: parse_database_index is called only by scrape_all, only after the adapter
\* was called on every list URL, and only while all_rows is empty: when it was
\* called, no row was ever built on a list page or from a captured JSON node, and
\* while it runs all_rows is still empty.
C14_IndexOnlyWhenNothingFound ==
  /\ p_fn = "parse_database_index" => p_indexed /\ all_rows = << >>
  /\ p_indexed =>
       /\ p_driver = "scrape_all"
       /\ p_visited = UpTo(p_nurls)
       /\ \A c \in created : c.source_page = DatabaseUrl
       /\ \A i \in 1..Len(all_rows) : all_rows[i].source_page = DatabaseUrl

\* Every list page was empty or failed, the capture gave no candidate, and the
\* index gave the two records of the output.
C14_Witness ==
  /\ p_pc = "done"
  /\ p_indexed
  /\ p_browser
  /\ p_failed = { 1 }
  /\ Len(result) = 2
  /\ \A n \in 1..Len(result) : result[n].source_page = DatabaseUrl

(***************************************************************************)
(* C15                                                                     *)
(***************************************************************************)
\* scrape_all is inside its with block.
InScope == p_pc \in { "urls", "page", "fallback", "json", "index", "exit" }

\* scrape_all has left its with block through __exit__.
ScopeLeft == p_pc \in { "dedup", "done" }

\* C15: in scrape_all the browser that __enter__ launched stays open, and its
\* driver running, for as long as the with block runs, whichever list pages,
\* detail pages or fallbacks fail; once the block is left the browser is closed
\* and the driver stopped; and no page is ever asked of a browser that is not
\* open.  (When __enter__ itself raises, the block is never entered.)
C15_BrowserReleasedAtScopeEnd ==
  p_driver = "scrape_all" =>
    /\ ~b_late
    /\ InScope =>
         /\ b_state = (IF p_browser THEN "open" ELSE "none")
         /\ pw_state = (IF p_browser THEN "running" ELSE "none")
    /\ ScopeLeft =>
         /\ b_state = (IF p_browser THEN "closed" ELSE "none")
         /\ pw_state = (IF p_browser THEN "stopped" ELSE "none")

\* Both list pages failed, the fallback went as far as the index, and the run is
\* over with the browser closed and the driver stopped.
C15_Witness ==
  /\ p_driver = "scrape_all" /\ p_pc = "done"
  /\ p_browser
  /\ p_failed = { 1, 2 }
  /\ p_indexed
  /\ Len(result) = 1
  /\ b_state = "closed" /\ pw_state = "stopped"

(***************************************************************************)
(* C16                                                                     *)
(***************************************************************************)
\* C16 (as stated): every record of a driver's returned list has a non-empty
\* name.
C16_EveryRecordHasAName ==
  p_pc = "done" => \A n \in 1..Len(result) : result[n].name # << >>

\* The rows with an empty name all come from the JSON capture of scrape_all.
C16_OnlyTheJsonCaptureBuildsNamelessRows ==
  \A c \in created : c.name = << >> => c.source_page = DatabaseJson

(***************************************************************************)
(* C17                                                                     *)
(***************************************************************************)
Windy == << "W","i","n","d","y" >>
Cloudy == << "C","l","o","u","d","y" >>

SeasonVocabulary == { Spring, Summer, Fall, Winter, AllSeasons, YearRound }

WeatherVocabulary == { Sunny, Rainy, Stormy, Windy, Snowy, Cloudy }

InVocabulary(r) ==
  /\ cell_set(r.seasons) \subseteq SeasonVocabulary
  /\ cell_set(r.weather) \subseteq WeatherVocabulary

\* C17 (as stated): in every record of a driver's returned list the labels of
\* the seasons cell are season names of the vocabulary and the labels of the
\* weather cell are weather names of the vocabulary.
C17_LabelsAreInVocabulary ==
  p_pc = "done" => \A n \in 1..Len(result) : InVocabulary(result[n])

\* The rows with a label outside the vocabularies all come from the JSON capture
\* of scrape_all, on the files and pages of this model.
C17_OnlyTheJsonCaptureLeavesTheVocabulary ==
  \A c \in created : ~InVocabulary(c) => c.source_page = DatabaseJson

(***************************************************************************)
(* C18                                                                     *)
(***************************************************************************)
\* scrape_ptbr has run on the files with the one crop entry "strawberry", and of
\* the journals only journal-crops.json held an entry with a key, the one entry
\* with the key "strawberry".
StrawberryRun ==
  /\ p_driver = "scrape_ptbr" /\ p_pc = "done"
  /\ files = StrawberryFiles
  /\ Len(all_rows) = 1
  /\ all_rows[1].source_page = "pt-BR/journal-crops.json"

\* C18 (as stated): on that dataset scrape_ptbr returns exactly one row, with
\* name "Strawberry", seasons "Spring", weather "" and category "crops".
C18_StrawberryRow ==
  StrawberryRun =>
    /\ Len(result) = 1
    /\ result[1].name = Strawberry
    /\ result[1].seasons = Spring
    /\ result[1].weather = << >>
    /\ result[1].category = "crops"

\* What scrape_ptbr returns on that dataset: the key as the name, since the name
\* is read from items.json, and no season, since the seasons of a crop are keyed
\* by pickupableItem.id.
C18_StrawberryRowOfTheCode ==
  StrawberryRun =>
    result = << ItemRow("", strawberry, << >>, << >>, "pt-BR/journal-crops.json", "crops") >>

(***************************************************************************)
(* C19                                                                     *)
(***************************************************************************)
\* parse_fandom_table or parse_list_page without a browser returns.
ScoreDedupReturns ==
  /\ p_pc = "page" /\ p_pc' # "page"
  /\ p_fn = "parse_fandom_table" \/ (p_fn = "parse_list_page" /\ ~p_browser)

\* What the adapter returned: the rows the driver extended all_rows with.
Returned == SubSeq(all_rows', Len(all_rows) + 1, Len(all_rows'))

\* The positions in items of the rows with the name key of r.
Namesakes(items, r) == { m \in 1..Len(items) : lower(items[m].name) = lower(r.name) }

\* ret holds one row per name key of items, the row of the first position among
\* those of the highest score with that key.
KeepsFirstOfRichest(items, ret) ==
  /\ \A i \in 1..Len(items) :
       Cardinality({ j \in 1..Len(ret) : lower(ret[j].name) = lower(items[i].name) }) = 1
  /\ \A j \in 1..Len(ret) :
       \E i \in Namesakes(items, ret[j]) :
          /\ ret[j] = items[i]
          /\ \A m \in Namesakes(items, ret[j]) :
               /\ Score(items[m]) <= Score(items[i])
               /\ m < i => Score(items[m]) < Score(items[i])

\* A turn of a driver's de-duplication loop on a row whose key by_name holds.
MergeTurn ==
  /\ p_pc = "dedup" /\ p_k' = p_k + 1
  /\ KeyIndex(by_name, all_rows[p_k], FALSE) # 0

\* The record of the key stays where it is with the name and the source_page it
\* had and takes the labels of both rows, whatever the scores of the two rows.
MergesWhateverTheScores ==
  LET r == all_rows[p_k]
      i == KeyIndex(by_name, r, FALSE)
  IN  /\ Len(by_name') = Len(by_name)
      /\ by_name'[i].name = by_name[i].name
      /\ by_name'[i].source_page = by_name[i].source_page
      /\ by_name'[i].image = ImgOr(by_name[i].image, r.image)
      /\ LowerLabels(by_name'[i].seasons) =
           LowerLabels(by_name[i].seasons) \cup LowerLabels(r.seasons)
      /\ LowerLabels(by_name'[i].weather) =
           LowerLabels(by_name[i].weather) \cup LowerLabels(r.weather)

\* C19: parse_fandom_table and parse_list_page without a browser return, of the
\* rows of the page that share a name key, the one with the highest richness
\* score, the first-built among those of equal score; and the merge of a driver's
\* de-duplication loop keeps the first record's name and source_page and unions
\* the labels even when the later row has the higher score.
C19_ScoreOnlyInsideAnAdapter ==
  [][/\ ScoreDedupReturns => KeepsFirstOfRichest(p_items, Returned)
     /\ MergeTurn => MergesWhateverTheScores]_vars

\* scrape_all without a browser: on the first page a poorer row with the name
\* of the returned one was dropped, and the second page gave a richer row with
\* that name, which was merged into the first page's record.
C19_Witness ==
  /\ p_driver = "scrape_all" /\ ~p_browser /\ p_pc = "done"
  /\ Len(all_rows) = 2 /\ Len(result) = 1
  /\ all_rows[1].source_page = BASE_URLS[1] /\ all_rows[2].source_page = BASE_URLS[2]
  /\ Score(all_rows[2]) > Score(all_rows[1])
  /\ \E c \in created :
       /\ c.source_page = BASE_URLS[1]
       /\ lower(c.name) = lower(all_rows[1].name)
       /\ Score(c) < Score(all_rows[1])
  /\ result[1].name = all_rows[1].name
  /\ result[1].source_page = BASE_URLS[1]

(***************************************************************************)
(* C20                                                                     *)
(***************************************************************************)
\* The cells of the record o hold exactly the labels of the cells of the rows
\* with its key that the loop has gone through.
DenotesTheUnion(o) ==
  /\ cell_set(o.seasons) = UNION { cell_set(Processed[i].seasons) : i \in SameKey(o) }
  /\ cell_set(o.weather) = UNION { cell_set(Processed[i].weather) : i \in SameKey(o) }

\* C20 (as stated): at every point of a driver's de-duplication loop, and in the
\* returned list, the seasons and the weather cell of a record split on "; "
\* into exactly the union of the label sets of the rows merged into it: no label
\* is lost, doubled or invented.
C20_StoredCellsDenoteTheUnion ==
  Deduping => \A n \in 1..Len(Records) : DenotesTheUnion(Records[n])

\* The records that are not the exact union are all records of the JSON capture
\* of scrape_all.
C20_OnlyTheJsonCaptureLosesALabel ==
  Deduping =>
    \A n \in 1..Len(Records) :
       ~DenotesTheUnion(Records[n]) => Records[n].source_page = DatabaseJson

====
